---- MODULE Spec2Model ----
(***************************************************************************)
(* Call ingestion and AI-processing orchestration service.                 *)
(*                                                                         *)
(*   app/routes.py             ingest_packet, get_call_status              *)
(*   app/models.py             Call, CallPacket, CallAIResult, CallState   *)
(*   app/background_worker.py  trigger_ai_processing,                      *)
(*                             process_call_with_retry, process_call,      *)
(*                             update_retry_count, mark_call_failed        *)
(*   app/websocket.py          notify_call_update                          *)
(*                                                                         *)
(* The database is modelled by its committed rows, the row lock that       *)
(* SELECT ... FOR UPDATE takes on a calls row, and the primary-key and     *)
(* unique constraints of models.py.  Every await of a handler is a step    *)
(* boundary: a request or a run is a process with a program counter.       *)
(***************************************************************************)
EXTENDS Integers, Sequences, FiniteSets, TLC

\* ------------------------------------------------------------------ bounds

\* Number of ingest requests that are ever submitted.
NumRequests == 3
\* Packet sequences range over 0..MaxSeq.
MaxSeq == 2
\* settings.max_ai_retries is configurable; it ranges over 0..MaxRetriesBound.
MaxRetriesBound == 1

Requests == 1..NumRequests
Sequences == 0..MaxSeq
CallIds == {"c1", "c2"}
\* The service instances that can be deployed against the one database.
AllInstances == {1, 2}

\* The websocket clients of the dashboard, and the notify_call_update calls.
NumPublishes == 2
Peers == {"p1", "p2"}
Publishes == 1..NumPublishes

\* The states a run publishes.
PublishStates == {"PROCESSING_AI", "COMPLETED"}

\* The field values of a request body: sequence, len(data), timestamp.
PayloadSequences == -1..MaxSeq
DataLengths == {0, 1}
Timestamps == {-1, 0, 1}

\* Mutation of PacketPayloadValid: data has no min_length.
PacketPayloadValid_NoMinLength(sequence, data_len, timestamp) ==
    sequence >= 0 /\ timestamp > 0

\* PacketPayload: sequence ge=0, data min_length=1, timestamp gt=0.
PacketPayloadValid(sequence, data_len, timestamp) ==
    sequence >= 0 /\ data_len >= 1 /\ timestamp > 0

\* ------------------------------------------------------------ CallState

IN_PROGRESS == "IN_PROGRESS"
COMPLETED == "COMPLETED"
PROCESSING_AI == "PROCESSING_AI"
FAILED == "FAILED"
ARCHIVED == "ARCHIVED"

CallState == {IN_PROGRESS, COMPLETED, PROCESSING_AI, FAILED, ARCHIVED}

\* (A variant of the table in which a COMPLETED call may still fail.)
valid_transitions_CompletedMayFail(s) ==
    CASE s = IN_PROGRESS -> {PROCESSING_AI, FAILED, COMPLETED}
      [] s = PROCESSING_AI -> {COMPLETED, FAILED}
      [] s = FAILED -> {PROCESSING_AI, ARCHIVED}
      [] s = COMPLETED -> {ARCHIVED, FAILED}
      [] s = ARCHIVED -> {}

\* CallState.valid_transitions
valid_transitions(s) ==
    CASE s = IN_PROGRESS -> {PROCESSING_AI, FAILED, COMPLETED}
      [] s = PROCESSING_AI -> {COMPLETED, FAILED}
      [] s = FAILED -> {PROCESSING_AI, ARCHIVED}
      [] s = COMPLETED -> {ARCHIVED}
      [] s = ARCHIVED -> {}

\* (A variant that lets a state follow itself.)
can_transition_to_SelfAllowed(s, new_state) == new_state \in valid_transitions(s) \cup {s}

\* CallState.can_transition_to
can_transition_to(s, new_state) == new_state \in valid_transitions(s)

\* Mutation of transition_state: the state is assigned without asking
\* can_transition_to.
transition_state_Unchecked(s, new_state) == new_state

\* Call.transition_state: the state the call has afterwards (unchanged when
\* the transition is refused and False is returned).
transition_state(s, new_state) ==
    IF can_transition_to(s, new_state) THEN new_state ELSE s

\* ------------------------------------------------------------------ state

VARIABLES
    max_retries,      \* settings.max_ai_retries
    instances,        \* the deployed service instances
    call_ids,         \* the call ids the clients use
    sequences,        \* the packet sequences the clients send
    calls,            \* table calls: call_id -> NoCall or the committed row
    packets,          \* table call_packets: call_id -> sequence -> rows' data, oldest first
    ai_results,       \* table call_ai_results: call_id -> NoResult or the row
    row_lock,         \* call_id -> the request whose transaction holds the calls row (0: none)
    req,              \* request -> the ingest request's position and locals
    processing_calls, \* instance -> the set processing_calls (in flight)
    run,              \* instance -> call_id -> the process_call_with_retry task
    tasks,            \* instance -> call_id -> number of such tasks created and not finished
    events,           \* the call_update events published, oldest first
    active_connections, \* manager.active_connections: the registered websockets
    call_subscribers, \* manager.call_subscribers: call_id -> websockets (no key: {})
    endpoint,         \* peer -> position of its websocket_endpoint handler
    alive,            \* peer -> the client side of its websocket is up
    publishing,       \* publish -> the notify_call_update call in progress
    delivered,        \* peer -> publish -> how many times its client received that event
    objects,          \* call_id -> state of a Call object a caller holds ("none": no object)
    returned,         \* call_id -> the last transition_state call on that object and its result
    status_query      \* the GET /v1/call/{call_id}/status request in progress

\* The notification hub and its peers.
hub_vars == <<active_connections, call_subscribers, endpoint, alive, publishing, delivered>>

\* Direct callers of the model classes and of the status route.
client_vars == <<objects, returned, status_query>>

vars == <<max_retries, instances, call_ids, sequences, calls, packets, ai_results, row_lock, req,
          processing_calls, run, tasks, events, hub_vars, client_vars>>

NoCall == [state |-> "none", last_sequence |-> -1]
NoResult == [status |-> "none", retry_count |-> 0, transcript |-> FALSE,
             sentiment |-> FALSE, error_message |-> FALSE]

\* A request that has not been submitted.
IdleRequest == [pc |-> "idle", inst |-> 0, call_id |-> "", sequence |-> -1,
                created |-> FALSE, last_sequence |-> -1,
                existing |-> FALSE, status |-> "none", message |-> FALSE]

\* payload.data of request r: every request carries its own payload, so a
\* stored row tells which submission wrote it.
PayloadData(r) == r

\* A task slot with no task in it.
NoRun == [pc |-> "none", retry_count |-> 0, state |-> "none", blob |-> <<>>,
          attempts |-> 0, unexpected |-> FALSE]

Max(a, b) == IF a > b THEN a ELSE b

\* A websocket that has not connected yet.
IdleEndpoint == "closed"

\* A notify_call_update call that has not been made.  size, snapshot and
\* visited are the set iterator of the running `for` loop, current is the
\* websocket whose send_json is awaited, disconnected is the
\* local set of that name; attached and subscribed remember the registries
\* at the time of the call, and failed the peers a send of it failed for.
IdlePublish == [pc |-> "idle", call_id |-> "", state |-> "none", size |-> 0,
                snapshot |-> {}, visited |-> {}, disconnected |-> {}, current |-> "none",
                attached |-> {}, subscribed |-> {}, failed |-> {}]

IdleQuery == [pc |-> "idle", call_id |-> "", status |-> 0, state |-> "none",
              last_sequence |-> -1, packet_count |-> 0, has_ai_result |-> FALSE]

\* ------------------------------------------------------------ persistence

\* The calls row is visible to a SELECT (committed).
CallExists(c) == calls[c] # NoCall

\* Mutation of RowLockFree: a plain select, which never waits for the row.
RowLockFree_NoLock(c) == TRUE

\* Mutation of RowLockFree: a run keeps the calls row locked from its claim
\* until it ends, across the adapter call and the backoff sleep.
RowLockFree_HeldByRun(c) ==
    /\ row_lock[c] = 0
    /\ \A i \in AllInstances : run[i][c].pc \notin {"adapter", "sleep"}

\* with_for_update(skip_locked=False): the select waits while another
\* transaction holds the row.
RowLockFree(c) == row_lock[c] = 0

\* Mutation of InsertPending: an INSERT never waits for a pending insert of
\* the same primary key.
InsertPending_NoWait(c) == FALSE

\* A calls row of this key was inserted by a transaction that has not ended:
\* an INSERT of the same primary key waits for it.
InsertPending(c) == ~CallExists(c) /\ row_lock[c] # 0

\* select(CallPacket).where(call_id == ..., sequence == ...) finds a row.
PacketExists(c, s) == Len(packets[c][s]) > 0

\* UniqueConstraint("call_id", "sequence"): the insert is refused.
UniqueViolation(c, s) == Len(packets[c][s]) > 0

\* Mutation of PacketData: the rows in descending sequence order.
RECURSIVE PacketData_Descending(_, _)
PacketData_Descending(c, s) ==
    IF s > MaxSeq THEN <<>> ELSE PacketData_Descending(c, s + 1) \o packets[c][s]

\* The rows of call c, in ascending sequence order (one per packet row).
RECURSIVE PacketData(_, _)
PacketData(c, s) ==
    IF s > MaxSeq THEN <<>> ELSE packets[c][s] \o PacketData(c, s + 1)

\* len(call.packets)
PacketCount(c) == Len(PacketData(c, 0))

\* ----------------------------------------------------------- orchestrator

\* Mutation of TriggerProcessing: a task is created whether or not the call is
\* in processing_calls.
TriggerProcessing_NoCoalesce(i, c) ==
    /\ processing_calls' = [processing_calls EXCEPT ![i] = @ \cup {c}]
    /\ run' = [run EXCEPT ![i][c] = [NoRun EXCEPT !.pc = "start"]]
    /\ tasks' = [tasks EXCEPT ![i][c] = @ + 1]

\* trigger_ai_processing: the in-flight set and the task slots afterwards.
TriggerProcessing(i, c) ==
    IF c \in processing_calls[i]
    THEN UNCHANGED <<processing_calls, run, tasks>>
    ELSE /\ processing_calls' = [processing_calls EXCEPT ![i] = @ \cup {c}]
         /\ run' = [run EXCEPT ![i][c] = [NoRun EXCEPT !.pc = "start"]]
         /\ tasks' = [tasks EXCEPT ![i][c] = @ + 1]

\* ----------------------------------------------------------------- ingest

\* A client submits POST /v1/call/stream/{call_id} to instance i (requests are
\* numbered in the order of submission).
IngestBegin(r, i, c, s) ==
    /\ req[r].pc = "idle"
    /\ IF r = 1 THEN TRUE ELSE req[r - 1].pc # "idle"
    /\ i \in instances
    /\ c \in call_ids
    /\ s \in sequences
    /\ req' = [req EXCEPT ![r] = [IdleRequest EXCEPT !.pc = "select", !.inst = i,
                                   !.call_id = c, !.sequence = s]]
    /\ UNCHANGED <<hub_vars, client_vars, max_retries, instances, call_ids, sequences, calls, packets, ai_results, row_lock,
                   processing_calls, tasks, run, events>>

\* A client submits a request whose body may be invalid: the body is validated
\* as PacketPayload before ingest_packet is entered, and an invalid body is
\* answered 422.
IngestSubmit(r, i, c, s, n, ts) ==
    /\ req[r].pc = "idle"
    /\ IF r = 1 THEN TRUE ELSE req[r - 1].pc # "idle"
    /\ i \in instances
    /\ c \in call_ids
    /\ s \in sequences \cup {-1}
    /\ req' = [req EXCEPT ![r] =
                 IF PacketPayloadValid(s, n, ts)
                 THEN [IdleRequest EXCEPT !.pc = "select", !.inst = i,
                                          !.call_id = c, !.sequence = s]
                 ELSE [IdleRequest EXCEPT !.pc = "done", !.status = "invalid",
                                          !.call_id = c]]
    /\ UNCHANGED <<hub_vars, client_vars, max_retries, instances, call_ids, sequences, calls, packets, ai_results,
                   row_lock, processing_calls, tasks, run, events>>

\* select(Call).where(call_id).with_for_update(): no row, or the row locked.
IngestSelect(r) ==
    LET c == req[r].call_id IN
    /\ req[r].pc = "select"
    /\ IF ~CallExists(c)
       THEN /\ req' = [req EXCEPT ![r].pc = "insert"]
            /\ UNCHANGED row_lock
       ELSE /\ RowLockFree(c)
            /\ row_lock' = [row_lock EXCEPT ![c] = r]
            /\ req' = [req EXCEPT ![r].pc = "check",
                                  ![r].last_sequence = calls[c].last_sequence]
    /\ UNCHANGED <<hub_vars, client_vars, max_retries, instances, call_ids, sequences, calls, packets, ai_results,
                   processing_calls, tasks, run, events>>

\* Mutation of IngestInsertCall: the new Call row is committed by the flush,
\* ahead of the packet.
IngestInsertCall_CommitsCall(r) ==
    LET c == req[r].call_id IN
    /\ req[r].pc = "insert"
    /\ ~InsertPending(c)
    /\ IF CallExists(c)
       THEN /\ req' = [req EXCEPT ![r].pc = "done", ![r].status = "error",
                                  ![r].inst = 0]
            /\ UNCHANGED <<row_lock, calls>>
       ELSE /\ row_lock' = [row_lock EXCEPT ![c] = r]
            /\ calls' = [calls EXCEPT ![c] = [state |-> IN_PROGRESS, last_sequence |-> -1]]
            /\ req' = [req EXCEPT ![r].pc = "check", ![r].last_sequence = -1]
    /\ UNCHANGED <<hub_vars, client_vars, max_retries, instances, call_ids, sequences, packets, ai_results,
                   processing_calls, tasks, run, events>>

\* db.add(Call(...)); flush.  When the key exists the flush raises; the handler
\* rolls the session back inside `async with db.begin()` and the re-select is
\* refused on the closed transaction, so the request ends in the outer handler
\* with HTTP 500 and nothing written.
IngestInsertCall(r) ==
    LET c == req[r].call_id IN
    /\ req[r].pc = "insert"
    /\ ~InsertPending(c)
    /\ IF CallExists(c)
       THEN /\ req' = [req EXCEPT ![r].pc = "done", ![r].status = "error",
                                  ![r].inst = 0]
            /\ UNCHANGED row_lock
       ELSE /\ row_lock' = [row_lock EXCEPT ![c] = r]
            /\ req' = [req EXCEPT ![r].pc = "check", ![r].created = TRUE,
                                  ![r].last_sequence = -1]
    /\ UNCHANGED <<hub_vars, client_vars, max_retries, instances, call_ids, sequences, calls, packets, ai_results,
                   processing_calls, tasks, run, events>>

\* Mutation of IngestCheck: trigger_ai_processing is called inside the
\* transaction, before the packet is committed.
IngestCheck_TriggerEarly(r) ==
    /\ req[r].pc = "check"
    /\ TriggerProcessing(req[r].inst, req[r].call_id)
    /\ req' = [req EXCEPT ![r].pc = "write",
                          ![r].existing = PacketExists(req[r].call_id, req[r].sequence)]
    /\ UNCHANGED <<hub_vars, client_vars, max_retries, instances, call_ids, sequences, calls, packets, ai_results,
                   row_lock, events>>

\* The idempotency select for (call_id, sequence).
IngestCheck(r) ==
    /\ req[r].pc = "check"
    /\ req' = [req EXCEPT ![r].pc = "write",
                          ![r].existing = PacketExists(req[r].call_id, req[r].sequence)]
    /\ UNCHANGED <<hub_vars, client_vars, max_retries, instances, call_ids, sequences, calls, packets, ai_results, row_lock,
                   processing_calls, tasks, run, events>>

\* Mutation of CommittedCall: last_sequence is assigned without the test
\* `payload.sequence > call.last_sequence`.
CommittedCall_NoGuard(r, inserted) ==
    LET c == req[r].call_id
        base == IF req[r].created
                THEN [state |-> IN_PROGRESS, last_sequence |-> -1]
                ELSE calls[c]
    IN IF inserted
       THEN [base EXCEPT !.last_sequence = req[r].sequence]
       ELSE base

\* Mutation of CommittedCall: the commit writes the state column back as
\* IN_PROGRESS.
CommittedCall_ResetsState(r, inserted) ==
    LET c == req[r].call_id
        base == IF req[r].created
                THEN [state |-> IN_PROGRESS, last_sequence |-> -1]
                ELSE [calls[c] EXCEPT !.state = IN_PROGRESS]
    IN IF inserted /\ req[r].sequence > req[r].last_sequence
       THEN [base EXCEPT !.last_sequence = req[r].sequence]
       ELSE base

\* The calls row as the transaction of r commits it.
CommittedCall(r, inserted) ==
    LET c == req[r].call_id
        base == IF req[r].created
                THEN [state |-> IN_PROGRESS, last_sequence |-> -1]
                ELSE calls[c]
    IN IF inserted /\ req[r].sequence > req[r].last_sequence
       THEN [base EXCEPT !.last_sequence = req[r].sequence]
       ELSE base

\* Mutation of IngestCommit: the packet is added whatever the idempotency
\* select found, into a table without the unique constraint.
IngestCommit_NoDedup(r) ==
    LET c == req[r].call_id
        s == req[r].sequence
    IN
    /\ req[r].pc = "write"
    /\ row_lock' = [row_lock EXCEPT ![c] = 0]
    /\ packets' = [packets EXCEPT ![c][s] = Append(@, PayloadData(r))]
    /\ calls' = [calls EXCEPT ![c] = CommittedCall(r, TRUE)]
    /\ req' = [req EXCEPT ![r].pc = "trigger"]
    /\ UNCHANGED <<hub_vars, client_vars, max_retries, instances, call_ids, sequences, ai_results, processing_calls, tasks,
                   run, events>>

\* db.add(packet), the last_sequence update and the commit that ends
\* `async with db.begin()`; a refused insert rolls everything back (HTTP 500).
IngestCommit(r) ==
    LET c == req[r].call_id
        s == req[r].sequence
    IN
    /\ req[r].pc = "write"
    /\ row_lock' = [row_lock EXCEPT ![c] = 0]
    /\ IF ~req[r].existing /\ UniqueViolation(c, s)
       THEN /\ req' = [req EXCEPT ![r].pc = "done", ![r].status = "error",
                                  ![r].created = FALSE, ![r].last_sequence = -1,
                                  ![r].inst = 0]
            /\ UNCHANGED <<calls, packets>>
       ELSE /\ packets' = IF req[r].existing THEN packets
                          ELSE [packets EXCEPT ![c][s] = Append(@, PayloadData(r))]
            /\ calls' = [calls EXCEPT ![c] = CommittedCall(r, ~req[r].existing)]
            /\ req' = [req EXCEPT ![r].pc = "trigger"]
    /\ UNCHANGED <<hub_vars, client_vars, max_retries, instances, call_ids, sequences, ai_results, processing_calls, tasks, run, events>>

\* Mutation of IngestRespond: the expected sequence is computed from the
\* call's last_sequence when the response is built, after the commit.
IngestRespond_LateExpected(r) ==
    /\ req[r].pc = "trigger"
    /\ TriggerProcessing(req[r].inst, req[r].call_id)
    /\ req' = [req EXCEPT ![r].pc = "done", ![r].status = "accepted",
                          ![r].message = (req[r].sequence
                                            # calls[req[r].call_id].last_sequence + 1),
                          ![r].created = FALSE, ![r].existing = FALSE,
                          ![r].last_sequence = -1, ![r].inst = 0]
    /\ UNCHANGED <<hub_vars, client_vars, max_retries, instances, call_ids, sequences, calls, packets, ai_results,
                   row_lock, events>>

\* trigger_ai_processing(call_id), then the 202 response; message is set iff
\* the sequence differed from expected_sequence.
IngestRespond(r) ==
    /\ req[r].pc = "trigger"
    /\ TriggerProcessing(req[r].inst, req[r].call_id)
    /\ req' = [req EXCEPT ![r].pc = "done", ![r].status = "accepted",
                          ![r].message = (req[r].sequence # req[r].last_sequence + 1),
                          ![r].created = FALSE, ![r].existing = FALSE,
                          ![r].last_sequence = -1, ![r].inst = 0]
    /\ UNCHANGED <<hub_vars, client_vars, max_retries, instances, call_ids, sequences, calls, packets, ai_results, row_lock, events>>

\* ------------------------------------------------- process_call_with_retry

\* Mutation of RunExit: the task ends and its call_id stays in processing_calls.
RunExit_KeepInFlight(i, c) ==
    /\ run' = [run EXCEPT ![i][c] = NoRun]
    /\ tasks' = [tasks EXCEPT ![i][c] = @ - 1]
    /\ UNCHANGED processing_calls

\* The `finally` of process_call_with_retry: the task ends and its call_id
\* leaves processing_calls.
RunExit(i, c) ==
    /\ run' = [run EXCEPT ![i][c] = NoRun]
    /\ processing_calls' = [processing_calls EXCEPT ![i] = @ \ {c}]
    /\ tasks' = [tasks EXCEPT ![i][c] = @ - 1]

\* The event loop runs the created task for the first time: it enters the `try`
\* and process_call up to its first database call.
RunStart(i, c) ==
    /\ run[i][c].pc = "start"
    /\ run' = [run EXCEPT ![i][c].pc = "load"]
    /\ UNCHANGED <<hub_vars, client_vars, max_retries, instances, call_ids, sequences, calls, packets, ai_results, row_lock,
                   req, processing_calls, tasks, events>>

\* notify_call_update(call_id, state)
Publish(c, state, ai_result) ==
    events' = Append(events, [call_id |-> c, state |-> state, ai_result |-> ai_result])

\* (A variant that accepts new calls only.)
ProcessableStates_InProgressOnly == {IN_PROGRESS}

\* The states process_call accepts a call in.
ProcessableStates == {IN_PROGRESS, FAILED}

\* Mutation of RunLoad: the state of the loaded call is not checked.
RunLoad_AnyState(i, c) ==
    /\ run[i][c].pc = "load"
    /\ IF ~CallExists(c)
       THEN RunExit(i, c)
       ELSE /\ run' = [run EXCEPT ![i][c].pc = "claim",
                                  ![i][c].state = calls[c].state,
                                  ![i][c].blob = PacketData(c, 0)]
            /\ UNCHANGED <<processing_calls, tasks>>
    /\ UNCHANGED <<hub_vars, client_vars, max_retries, instances, call_ids, sequences, calls, packets, ai_results, row_lock,
                   req, events>>

\* process_call: the select of the call with its packets and AI result, and the
\* two early returns (call absent, call not in a processable state).
RunLoad(i, c) ==
    /\ run[i][c].pc = "load"
    /\ IF ~CallExists(c) \/ calls[c].state \notin ProcessableStates
       THEN RunExit(i, c)
       ELSE /\ run' = [run EXCEPT ![i][c].pc = "claim",
                                  ![i][c].state = calls[c].state,
                                  ![i][c].blob = PacketData(c, 0)]
            /\ UNCHANGED <<processing_calls, tasks>>
    /\ UNCHANGED <<hub_vars, client_vars, max_retries, instances, call_ids, sequences, calls, packets, ai_results, row_lock,
                   req, events>>

\* Mutation of RunClaim: the transition is made on the loaded call and the
\* commit that persists it is missing.
RunClaim_NoCommit(i, c) ==
    /\ run[i][c].pc = "claim"
    /\ IF ~can_transition_to(run[i][c].state, PROCESSING_AI)
       THEN RunExit(i, c)
       ELSE /\ run' = [run EXCEPT ![i][c].pc = "notify_processing",
                                  ![i][c].state = PROCESSING_AI]
            /\ UNCHANGED <<processing_calls, tasks>>
    /\ UNCHANGED <<hub_vars, client_vars, max_retries, instances, call_ids, sequences, calls, packets, ai_results, row_lock, req, events>>

\* process_call: transition_state(PROCESSING_AI) on the loaded call and commit.
RunClaim(i, c) ==
    /\ run[i][c].pc = "claim"
    /\ IF ~can_transition_to(run[i][c].state, PROCESSING_AI)
       THEN /\ RunExit(i, c)
            /\ UNCHANGED calls
       ELSE /\ RowLockFree(c)
            /\ calls' = [calls EXCEPT ![c].state = PROCESSING_AI]
            /\ run' = [run EXCEPT ![i][c].pc = "notify_processing",
                                  ![i][c].state = PROCESSING_AI]
            /\ UNCHANGED <<processing_calls, tasks>>
    /\ UNCHANGED <<hub_vars, client_vars, max_retries, instances, call_ids, sequences, packets, ai_results, row_lock, req, events>>

\* process_call: notify_call_update(call_id, PROCESSING_AI).
RunNotifyProcessing(i, c) ==
    /\ run[i][c].pc = "notify_processing"
    /\ Publish(c, PROCESSING_AI, FALSE)
    /\ run' = [run EXCEPT ![i][c].pc = "adapter"]
    /\ UNCHANGED <<hub_vars, client_vars, max_retries, instances, call_ids, sequences, calls, packets, ai_results, row_lock,
                   req, processing_calls, tasks>>

\* Mutation of AfterFailure: the exhaustion test is off by one.
AfterFailure_OffByOne(retry_count) ==
    IF retry_count > max_retries + 1 THEN "mark_failed" ELSE "update_retry"

\* The retry decision of the `except MockAIServiceError` handler, given the
\* incremented retry_count: give up, or persist the count and back off.
AfterFailure(retry_count) ==
    IF retry_count > max_retries THEN "mark_failed" ELSE "update_retry"

\* ai_service.transcribe returns a result, or raises MockAIServiceError and the
\* handler increments retry_count.
RunAdapter(i, c, ok) ==
    /\ run[i][c].pc = "adapter"
    /\ run' = [run EXCEPT
                 ![i][c].attempts = @ + 1,
                 ![i][c].retry_count = IF ok THEN @ ELSE @ + 1,
                 ![i][c].pc = IF ok THEN "store"
                              ELSE AfterFailure(run[i][c].retry_count + 1)]
    /\ UNCHANGED <<hub_vars, client_vars, max_retries, instances, call_ids, sequences, calls, packets, ai_results, row_lock,
                   req, processing_calls, tasks, events>>

\* The AI result row written on success.
CompletedResult(retry_attempt) ==
    [status |-> "completed", retry_count |-> retry_attempt, transcript |-> TRUE,
     sentiment |-> TRUE, error_message |-> FALSE]

\* Mutation of RunStore: the AI result is committed without the transition of
\* the call to COMPLETED.
RunStore_NoTransition(i, c) ==
    /\ run[i][c].pc = "store"
    /\ ai_results[c] = NoResult => RowLockFree(c)
    /\ ai_results' = [ai_results EXCEPT ![c] = CompletedResult(run[i][c].retry_count)]
    /\ run' = [run EXCEPT ![i][c].pc = "notify_completed"]
    /\ UNCHANGED <<hub_vars, client_vars, max_retries, instances, call_ids, sequences, calls, packets, row_lock, req,
                   processing_calls, tasks, events>>

\* Mutation of RunStore: an existing AI result keeps its error_message.
RunStore_KeepsError(i, c) ==
    /\ run[i][c].pc = "store"
    /\ (transition_state(calls[c].state, COMPLETED) # calls[c].state
          \/ ai_results[c] = NoResult) => RowLockFree(c)
    /\ ai_results' = [ai_results EXCEPT ![c] =
          [CompletedResult(run[i][c].retry_count)
             EXCEPT !.error_message = ai_results[c].error_message]]
    /\ calls' = [calls EXCEPT ![c].state = transition_state(calls[c].state, COMPLETED)]
    /\ run' = [run EXCEPT ![i][c].pc = "notify_completed"]
    /\ UNCHANGED <<hub_vars, client_vars, max_retries, instances, call_ids, sequences, packets, row_lock, req,
                   processing_calls, tasks, events>>

\* process_call after the adapter returned: refresh, upsert the AI result,
\* transition_state(COMPLETED), commit.  The UPDATE of the calls row, and the
\* foreign key of a new call_ai_results row, wait for the row lock.
RunStore(i, c) ==
    /\ run[i][c].pc = "store"
    /\ (transition_state(calls[c].state, COMPLETED) # calls[c].state
          \/ ai_results[c] = NoResult) => RowLockFree(c)
    /\ ai_results' = [ai_results EXCEPT ![c] = CompletedResult(run[i][c].retry_count)]
    /\ calls' = [calls EXCEPT ![c].state = transition_state(calls[c].state, COMPLETED)]
    /\ run' = [run EXCEPT ![i][c].pc = "notify_completed"]
    /\ UNCHANGED <<hub_vars, client_vars, max_retries, instances, call_ids, sequences, packets, row_lock, req,
                   processing_calls, tasks, events>>

\* process_call: notify_call_update(call_id, COMPLETED, ai_result); return True.
RunNotifyCompleted(i, c) ==
    /\ run[i][c].pc = "notify_completed"
    /\ Publish(c, COMPLETED, TRUE)
    /\ RunExit(i, c)
    /\ UNCHANGED <<hub_vars, client_vars, max_retries, instances, call_ids, sequences, calls, packets, ai_results, row_lock, req>>

\* A new call_ai_results row with the column defaults.
PendingResult == [NoResult EXCEPT !.status = "pending"]

\* update_retry_count
RunUpdateRetry(i, c) ==
    /\ run[i][c].pc = "update_retry"
    /\ IF CallExists(c)
       THEN /\ ai_results[c] = NoResult => RowLockFree(c)
            /\ ai_results' = [ai_results EXCEPT ![c] =
                 [(IF @ = NoResult THEN PendingResult ELSE @)
                    EXCEPT !.retry_count = run[i][c].retry_count]]
       ELSE UNCHANGED ai_results
    /\ run' = [run EXCEPT ![i][c].pc = "sleep"]
    /\ UNCHANGED <<hub_vars, client_vars, max_retries, instances, call_ids, sequences, calls, packets, row_lock, req,
                   processing_calls, tasks, events>>

\* asyncio.sleep(backoff), then the loop test `retry_count <= max_retries`.
RunSleep(i, c) ==
    /\ run[i][c].pc = "sleep"
    /\ IF run[i][c].retry_count <= max_retries
       THEN /\ run' = [run EXCEPT ![i][c].pc = "load"]
            /\ UNCHANGED <<processing_calls, tasks>>
       ELSE RunExit(i, c)
    /\ UNCHANGED <<hub_vars, client_vars, max_retries, instances, call_ids, sequences, calls, packets, ai_results, row_lock,
                   req, events>>

\* Mutation of RunMarkFailed: a call that is already FAILED is archived.
RunMarkFailed_Archives(i, c) ==
    /\ run[i][c].pc = "mark_failed"
    /\ IF CallExists(c)
       THEN /\ RowLockFree(c)
            /\ calls' = [calls EXCEPT ![c].state =
                 IF @ = FAILED THEN transition_state(@, ARCHIVED)
                 ELSE transition_state(@, FAILED)]
            /\ ai_results' = [ai_results EXCEPT ![c] =
                 [(IF @ = NoResult THEN PendingResult ELSE @)
                    EXCEPT !.status = "failed", !.error_message = TRUE]]
       ELSE UNCHANGED <<calls, ai_results>>
    /\ run' = [run EXCEPT ![i][c].pc = "notify_failed"]
    /\ UNCHANGED <<hub_vars, client_vars, max_retries, instances, call_ids, sequences, packets, row_lock, req,
                   processing_calls, tasks, events>>

\* mark_call_failed up to its commit.
RunMarkFailed(i, c) ==
    /\ run[i][c].pc = "mark_failed"
    /\ IF CallExists(c)
       THEN /\ (transition_state(calls[c].state, FAILED) # calls[c].state
                  \/ ai_results[c] = NoResult) => RowLockFree(c)
            /\ calls' = [calls EXCEPT ![c].state = transition_state(@, FAILED)]
            /\ ai_results' = [ai_results EXCEPT ![c] =
                 [(IF @ = NoResult THEN PendingResult ELSE @)
                    EXCEPT !.status = "failed", !.error_message = TRUE]]
       ELSE UNCHANGED <<calls, ai_results>>
    /\ run' = [run EXCEPT ![i][c].pc = "notify_failed"]
    /\ UNCHANGED <<hub_vars, client_vars, max_retries, instances, call_ids, sequences, packets, row_lock, req,
                   processing_calls, tasks, events>>

\* mark_call_failed: notify_call_update(call_id, FAILED); the task returns.
RunNotifyFailed(i, c) ==
    /\ run[i][c].pc = "notify_failed"
    /\ Publish(c, FAILED, FALSE)
    /\ RunExit(i, c)
    /\ UNCHANGED <<hub_vars, client_vars, max_retries, instances, call_ids, sequences, calls, packets, ai_results, row_lock, req>>

\* A database call of process_call (the select, a commit, the refresh) raises
\* something other than MockAIServiceError: the `except Exception` handler
\* calls mark_call_failed.
RunUnexpectedError(i, c) ==
    /\ run[i][c].pc \in {"load", "claim", "store"}
    /\ run' = [run EXCEPT ![i][c].pc = "mark_failed", ![i][c].unexpected = TRUE]
    /\ UNCHANGED <<hub_vars, client_vars, max_retries, instances, call_ids, sequences, calls, packets, ai_results, row_lock,
                   req, processing_calls, tasks, events>>

\* task.cancel() on a task that has started (the teardown of the test suite
\* cancels the process_call_with_retry tasks still pending after a pause):
\* CancelledError is raised at the await the task is suspended in, no handler
\* of the loop catches it, the open session is discarded and `finally` runs.
RunCancel(i, c) ==
    /\ run[i][c].pc \notin {"none", "start"}
    /\ RunExit(i, c)
    /\ UNCHANGED <<hub_vars, client_vars, max_retries, instances, call_ids, sequences, calls, packets, ai_results, row_lock,
                   req, events>>

\* ---------------------------------------------------------- specification

\* ------------------------------------------------------ notification hub

\* The two registries of the ConnectionManager, as one value.
Registries == [active |-> active_connections, subs |-> call_subscribers]

\* The registries after manager.connect(p) has accepted the websocket.
connect(reg, p) == [reg EXCEPT !.active = @ \cup {p}]

\* (A variant of disconnect that leaves the per-call sets alone.)
disconnect_ActiveOnly(reg, p) == [reg EXCEPT !.active = @ \ {p}]

\* The registries after manager.disconnect(p).
disconnect(reg, p) ==
    [active |-> reg.active \ {p},
     subs |-> [c \in CallIds |-> reg.subs[c] \ {p}]]

\* The registries after manager.subscribe_to_call(p, c).
subscribe_to_call(reg, p, c) == [reg EXCEPT !.subs[c] = @ \cup {p}]

\* disconnect applied to each websocket of a set, as the cleanup loops do.
RECURSIVE DisconnectAll(_, _)
DisconnectAll(reg, ps) ==
    IF ps = {} THEN reg
    ELSE LET p == CHOOSE x \in ps : TRUE
         IN  DisconnectAll(disconnect(reg, p), ps \ {p})

SetRegistries(reg) ==
    /\ active_connections' = reg.active
    /\ call_subscribers' = reg.subs

\* A client opens a websocket to /ws/dashboard: websocket_endpoint starts and
\* manager.connect awaits websocket.accept().
WsOpen(p) ==
    /\ endpoint[p] = "closed"
    /\ endpoint' = [endpoint EXCEPT ![p] = "accept"]
    /\ alive' = [alive EXCEPT ![p] = TRUE]
    /\ UNCHANGED <<active_connections, call_subscribers, publishing, delivered, client_vars>>
    /\ UNCHANGED <<max_retries, instances, call_ids, sequences, calls, packets, ai_results,
                   row_lock, req, processing_calls, run, tasks, events>>

\* manager.connect after accept() returned: the websocket is registered.  If
\* the client has gone, accept() raises and the handler ends unregistered.
WsConnect(p) ==
    /\ endpoint[p] = "accept"
    /\ IF alive[p]
       THEN /\ SetRegistries(connect(Registries, p))
            /\ endpoint' = [endpoint EXCEPT ![p] = "receive"]
       ELSE /\ endpoint' = [endpoint EXCEPT ![p] = "done"]
            /\ UNCHANGED <<active_connections, call_subscribers>>
    /\ UNCHANGED <<alive, publishing, delivered, client_vars>>
    /\ UNCHANGED <<max_retries, instances, call_ids, sequences, calls, packets, ai_results,
                   row_lock, req, processing_calls, run, tasks, events>>

\* The client side of the websocket goes away (closed, or the network drops).
WsClientClose(p) ==
    /\ alive[p]
    /\ endpoint[p] # "done"
    /\ alive' = [alive EXCEPT ![p] = FALSE]
    /\ UNCHANGED <<active_connections, call_subscribers, endpoint, publishing, delivered,
                   client_vars>>
    /\ UNCHANGED <<max_retries, instances, call_ids, sequences, calls, packets, ai_results,
                   row_lock, req, processing_calls, run, tasks, events>>

\* receive_json returns a message the client sent (possibly before it went
\* away): {"action": "subscribe", "call_id": c} subscribes, "ping" does not;
\* either way the handler then awaits its reply send.
WsReceive(p, action, c) ==
    /\ c \in call_ids
    /\ endpoint[p] = "receive"
    /\ IF action = "subscribe"
       THEN SetRegistries(subscribe_to_call(Registries, p, c))
       ELSE UNCHANGED <<active_connections, call_subscribers>>
    /\ endpoint' = [endpoint EXCEPT ![p] = "reply"]
    /\ UNCHANGED <<alive, publishing, delivered, client_vars>>
    /\ UNCHANGED <<max_retries, instances, call_ids, sequences, calls, packets, ai_results,
                   row_lock, req, processing_calls, run, tasks, events>>

\* The reply send_json returns, or raises because the client has gone: the
\* `except Exception` branch disconnects and the handler ends.
WsReply(p) ==
    /\ endpoint[p] = "reply"
    /\ IF alive[p]
       THEN /\ endpoint' = [endpoint EXCEPT ![p] = "receive"]
            /\ UNCHANGED <<active_connections, call_subscribers>>
       ELSE /\ SetRegistries(disconnect(Registries, p))
            /\ endpoint' = [endpoint EXCEPT ![p] = "done"]
    /\ UNCHANGED <<alive, publishing, delivered, client_vars>>
    /\ UNCHANGED <<max_retries, instances, call_ids, sequences, calls, packets, ai_results,
                   row_lock, req, processing_calls, run, tasks, events>>

\* receive_json raises: WebSocketDisconnect once the client has gone, or
\* another exception for a message that is not a JSON object.  Both handlers
\* disconnect, and websocket_endpoint returns.
WsDisconnect(p) ==
    /\ endpoint[p] = "receive"
    /\ SetRegistries(disconnect(Registries, p))
    /\ endpoint' = [endpoint EXCEPT ![p] = "done"]
    /\ UNCHANGED <<alive, publishing, delivered, client_vars>>
    /\ UNCHANGED <<max_retries, instances, call_ids, sequences, calls, packets, ai_results,
                   row_lock, req, processing_calls, run, tasks, events>>

\* After websocket_endpoint has returned the server closes the connection.
WsServerClose(p) ==
    /\ endpoint[p] = "done"
    /\ alive[p]
    /\ alive' = [alive EXCEPT ![p] = FALSE]
    /\ UNCHANGED <<active_connections, call_subscribers, endpoint, publishing, delivered,
                   client_vars>>
    /\ UNCHANGED <<max_retries, instances, call_ids, sequences, calls, packets, ai_results,
                   row_lock, req, processing_calls, run, tasks, events>>

\* The set a running broadcast iterates over: call_subscribers[call_id] in
\* broadcast_to_call, active_connections in broadcast_to_all.
Registry(k) ==
    IF publishing[k].pc = "call" THEN call_subscribers[publishing[k].call_id]
    ELSE active_connections

\* A fresh iterator over set S, about to send to its first element x.
Iterate(pub, S, x) ==
    [pub EXCEPT !.size = Cardinality(S), !.snapshot = S, !.visited = {},
                !.disconnected = {}, !.current = x]

\* A notify_call_update call that has returned or raised: its locals are gone.
Finished(pub, outcome) ==
    [IdlePublish EXCEPT !.pc = outcome, !.call_id = pub.call_id, !.state = pub.state]

\* broadcast_to_all from its start, given the registered websockets: the loop
\* sends to a first websocket x, or there is none and notify_call_update
\* returns.
broadcast_to_all(pub, active, x) ==
    IF active = {} THEN Finished(pub, "returned")
    ELSE Iterate([pub EXCEPT !.pc = "all"], active, x)

\* broadcast_to_call from its start: the loop sends to a first subscriber x;
\* without a subscriber (or without the key) broadcast_to_all follows at once.
broadcast_to_call(pub, subscribers, active, x) ==
    IF subscribers = {} THEN broadcast_to_all(pub, active, x)
    ELSE Iterate([pub EXCEPT !.pc = "call"], subscribers, x)

\* The first websocket a loop over S may yield ("none" for an empty loop).
First(S, x) == IF S = {} THEN x = "none" ELSE x \in S

\* notify_call_update(c, state) is called (one run per call, so no two
\* publications of one call overlap): the message is built and the first
\* send_json is awaited.
notify_call_update(k, c, state, x) ==
    /\ c \in call_ids
    /\ publishing[k].pc = "idle"
    /\ \A j \in Publishes : j < k => publishing[j].pc # "idle"
    /\ \A j \in Publishes :
          publishing[j].pc \in {"call", "all"} => publishing[j].call_id # c
    /\ First(IF call_subscribers[c] = {} THEN active_connections
             ELSE call_subscribers[c], x)
    /\ publishing' = [publishing EXCEPT ![k] =
          broadcast_to_call([IdlePublish EXCEPT !.call_id = c, !.state = state,
                                                !.attached = active_connections,
                                                !.subscribed = call_subscribers[c]],
                            call_subscribers[c], active_connections, x)]
    /\ UNCHANGED <<active_connections, call_subscribers, endpoint, alive, delivered,
                   client_vars>>
    /\ UNCHANGED <<max_retries, instances, call_ids, sequences, calls, packets, ai_results,
                   row_lock, req, processing_calls, run, tasks, events>>

\* The locals of publish k once the send_json it awaits has returned, or
\* raised and the websocket was added to `disconnected`.
SendDone(k) ==
    LET x == publishing[k].current
    IN  [publishing[k] EXCEPT
           !.visited = @ \cup {x},
           !.disconnected = IF alive[x] THEN @ ELSE @ \cup {x},
           !.failed = IF alive[x] THEN @ ELSE @ \cup {x}]

\* The client of the websocket publish k sends to receives the message, if it
\* is up.
Deliver(k) ==
    delivered' = [delivered EXCEPT ![publishing[k].current][k] =
                     IF alive[publishing[k].current] THEN @ + 1 ELSE @]

\* A send returns or fails, and the iterator yields the next websocket x of
\* the set, whose send is awaited in turn.
BroadcastSend(k, x) ==
    /\ publishing[k].pc \in {"call", "all"}
    /\ Cardinality(Registry(k)) = publishing[k].size
    /\ x \in Registry(k) \ SendDone(k).visited
    /\ publishing' = [publishing EXCEPT ![k] = [SendDone(k) EXCEPT !.current = x]]
    /\ Deliver(k)
    /\ UNCHANGED <<active_connections, call_subscribers, endpoint, alive, client_vars>>
    /\ UNCHANGED <<max_retries, instances, call_ids, sequences, calls, packets, ai_results,
                   row_lock, req, processing_calls, run, tasks, events>>

\* A send returns or fails, and the iterator is asked for its next element
\* after the set changed size: RuntimeError, which no handler of the hub
\* catches, so notify_call_update raises to its caller.
BroadcastRaise(k) ==
    /\ publishing[k].pc \in {"call", "all"}
    /\ Cardinality(Registry(k)) # publishing[k].size
    /\ publishing' = [publishing EXCEPT ![k] = Finished(@, "raised")]
    /\ Deliver(k)
    /\ UNCHANGED <<active_connections, call_subscribers, endpoint, alive, client_vars>>
    /\ UNCHANGED <<max_retries, instances, call_ids, sequences, calls, packets, ai_results,
                   row_lock, req, processing_calls, run, tasks, events>>

\* A send returns or fails and the loop ends (the elements it started with
\* and that are still in the set have all been yielded): the cleanup loop
\* disconnects the websockets whose send failed; broadcast_to_call is
\* followed by broadcast_to_all, which sends to a first websocket x, and
\* broadcast_to_all by the return of notify_call_update.
BroadcastEnd(k, x) ==
    /\ publishing[k].pc \in {"call", "all"}
    /\ Cardinality(Registry(k)) = publishing[k].size
    /\ (publishing[k].snapshot \cap Registry(k)) \subseteq SendDone(k).visited
    /\ LET reg == DisconnectAll(Registries, SendDone(k).disconnected)
       IN  /\ SetRegistries(reg)
           /\ First(IF publishing[k].pc = "call" THEN reg.active ELSE {}, x)
           /\ publishing' = [publishing EXCEPT ![k] =
                 IF @.pc = "call"
                 THEN broadcast_to_all(SendDone(k), reg.active, x)
                 ELSE Finished(@, "returned")]
    /\ Deliver(k)
    /\ UNCHANGED <<endpoint, alive, client_vars>>
    /\ UNCHANGED <<max_retries, instances, call_ids, sequences, calls, packets, ai_results,
                   row_lock, req, processing_calls, run, tasks, events>>

\* ------------------------------------------------------------ status query

\* GET /v1/call/{c}/status: the select of the Call row; 404 when there is none.
get_call_status(c) ==
    /\ c \in call_ids
    /\ status_query.pc = "idle"
    /\ status_query' =
          IF CallExists(c)
          THEN [IdleQuery EXCEPT !.pc = "packets", !.call_id = c,
                                 !.state = calls[c].state,
                                 !.last_sequence = calls[c].last_sequence]
          ELSE [IdleQuery EXCEPT !.pc = "done", !.call_id = c, !.status = 404]
    /\ UNCHANGED <<objects, returned, hub_vars>>
    /\ UNCHANGED <<max_retries, instances, call_ids, sequences, calls, packets, ai_results,
                   row_lock, req, processing_calls, run, tasks, events>>

\* (A variant that derives the packet count from last_sequence.)
StatusLoadPackets_FromLastSequence ==
    /\ status_query.pc = "packets"
    /\ status_query' = [status_query EXCEPT !.pc = "ai_result",
                                            !.packet_count = status_query.last_sequence + 1]
    /\ UNCHANGED <<objects, returned, hub_vars>>
    /\ UNCHANGED <<max_retries, instances, call_ids, sequences, calls, packets, ai_results,
                   row_lock, req, processing_calls, run, tasks, events>>

\* selectinload(Call.packets): the second select of the query, whose rows
\* len(call.packets) counts.
StatusLoadPackets ==
    /\ status_query.pc = "packets"
    /\ status_query' = [status_query EXCEPT !.pc = "ai_result",
                                            !.packet_count = PacketCount(status_query.call_id)]
    /\ UNCHANGED <<objects, returned, hub_vars>>
    /\ UNCHANGED <<max_retries, instances, call_ids, sequences, calls, packets, ai_results,
                   row_lock, req, processing_calls, run, tasks, events>>

\* selectinload(Call.ai_result): the third select, and the 200 response.
StatusLoadResult ==
    /\ status_query.pc = "ai_result"
    /\ status_query' = [status_query EXCEPT
                           !.pc = "done", !.status = 200,
                           !.has_ai_result = (ai_results[status_query.call_id] # NoResult)]
    /\ UNCHANGED <<objects, returned, hub_vars>>
    /\ UNCHANGED <<max_retries, instances, call_ids, sequences, calls, packets, ai_results,
                   row_lock, req, processing_calls, run, tasks, events>>

\* ------------------------------------------------------------ Call objects

NoReturn == [new_state |-> "none", value |-> FALSE]

\* Call(call_id=c, state=s): the constructor takes any CallState.
CallCreate(c, s) ==
    /\ objects[c] = "none"
    /\ objects' = [objects EXCEPT ![c] = s]
    /\ UNCHANGED <<returned, status_query, hub_vars>>
    /\ UNCHANGED <<max_retries, instances, call_ids, sequences, calls, packets, ai_results,
                   row_lock, req, processing_calls, run, tasks, events>>

\* call.transition_state(new_state) on the object, and the boolean it returns.
CallTransition(c, new_state) ==
    /\ objects[c] # "none"
    /\ objects' = [objects EXCEPT ![c] = transition_state(objects[c], new_state)]
    /\ returned' = [returned EXCEPT ![c] =
                        [new_state |-> new_state,
                         value |-> can_transition_to(objects[c], new_state)]]
    /\ UNCHANGED <<status_query, hub_vars>>
    /\ UNCHANGED <<max_retries, instances, call_ids, sequences, calls, packets, ai_results,
                   row_lock, req, processing_calls, run, tasks, events>>

\* ------------------------------------------------------------ specifications

\* The database, the requests and the runs before anything happened.
ServiceInit ==
    /\ max_retries \in 0..MaxRetriesBound
    /\ calls = [c \in CallIds |-> NoCall]
    /\ packets = [c \in CallIds |-> [s \in Sequences |-> <<>>]]
    /\ ai_results = [c \in CallIds |-> NoResult]
    /\ row_lock = [c \in CallIds |-> 0]
    /\ req = [r \in Requests |-> IdleRequest]
    /\ processing_calls = [i \in AllInstances |-> {}]
    /\ run = [i \in AllInstances |-> [c \in CallIds |-> NoRun]]
    /\ tasks = [i \in AllInstances |-> [c \in CallIds |-> 0]]
    /\ events = <<>>
    /\ objects = [c \in CallIds |-> "none"]
    /\ returned = [c \in CallIds |-> NoReturn]
    /\ status_query = IdleQuery

\* ConnectionManager(): no websocket is registered.
HubInit ==
    /\ active_connections = {}
    /\ call_subscribers = [c \in CallIds |-> {}]
    /\ endpoint = [p \in Peers |-> IdleEndpoint]
    /\ alive = [p \in Peers |-> FALSE]
    /\ publishing = [k \in Publishes |-> IdlePublish]
    /\ delivered = [p \in Peers |-> [k \in Publishes |-> 0]]

InitCommon == ServiceInit /\ HubInit

\* One service instance, and clients that stream one call.
Init == InitCommon /\ instances = {1} /\ call_ids = {"c1"} /\ sequences = Sequences

\* A step of the handler of a submitted request.
IngestStep(r) ==
    \/ IngestSelect(r)
    \/ IngestInsertCall(r)
    \/ IngestCheck(r)
    \/ IngestCommit(r)
    \/ IngestRespond(r)

IngestNext ==
    \E r \in Requests :
        \/ \E i \in AllInstances, c \in CallIds, s \in Sequences :
               IngestBegin(r, i, c, s)
        \/ IngestStep(r)

\* A step of the task that instance i runs for call c.
RunStep(i, c) ==
    \/ RunStart(i, c)
    \/ RunLoad(i, c)
    \/ RunClaim(i, c)
    \/ RunNotifyProcessing(i, c)
    \/ \E ok \in BOOLEAN : RunAdapter(i, c, ok)
    \/ RunStore(i, c)
    \/ RunNotifyCompleted(i, c)
    \/ RunUpdateRetry(i, c)
    \/ RunSleep(i, c)
    \/ RunMarkFailed(i, c)
    \/ RunNotifyFailed(i, c)

RunNext == \E i \in AllInstances, c \in CallIds : RunStep(i, c)

FaultNext == \E i \in AllInstances, c \in CallIds : RunUnexpectedError(i, c)

Next == IngestNext \/ RunNext \/ FaultNext

Spec == Init /\ [][Next]_vars

\* The service while its pending tasks may be cancelled.
CancelNext == \E i \in AllInstances, c \in CallIds : RunCancel(i, c)

CancelSpec == Init /\ [][Next \/ CancelNext]_vars

\* The service while clients may also send bodies that fail validation.
SubmitNext ==
    \E r \in Requests, i \in AllInstances, c \in CallIds :
        \E s \in PayloadSequences, n \in DataLengths, ts \in Timestamps :
            IngestSubmit(r, i, c, s, n, ts)

ValidationSpec == Init /\ [][Next \/ SubmitNext]_vars

\* Two service instances on one database, and clients that send (and resend)
\* the first packet of one call.
ClusterInit ==
    InitCommon /\ instances = AllInstances /\ call_ids = {"c1"} /\ sequences = {0}

ClusterSpec == ClusterInit /\ [][Next]_vars

\* One service instance, and clients that stream two calls.
TwoCallInit ==
    InitCommon /\ instances = {1} /\ call_ids = CallIds /\ sequences = {0}

TwoCallSpec == TwoCallInit /\ [][Next]_vars

\* A client asks for the status of a call while the service works.
StatusNext ==
    \/ \E c \in CallIds : get_call_status(c)
    \/ StatusLoadPackets
    \/ StatusLoadResult

StatusInit ==
    /\ InitCommon /\ instances = {1} /\ call_ids = {"c1"} /\ sequences = {0, 1}
    /\ max_retries = MaxRetriesBound

StatusSpec == StatusInit /\ [][Next \/ StatusNext]_vars

\* The websocket handlers of the dashboard peers.
EndpointStep(p) ==
    \/ WsConnect(p)
    \/ \E action \in {"subscribe", "ping"}, c \in CallIds : WsReceive(p, action, c)
    \/ WsReply(p)
    \/ WsDisconnect(p)

\* What the clients and the network do to a websocket.
PeerNext ==
    \E p \in Peers :
        \/ WsOpen(p)
        \/ WsClientClose(p)
        \/ WsServerClose(p)

\* The steps of a notify_call_update call in progress.
PublishStep(k) ==
    \/ \E x \in Peers : BroadcastSend(k, x)
    \/ BroadcastRaise(k)
    \/ \E x \in Peers \cup {"none"} : BroadcastEnd(k, x)

\* The runs of the instance, as callers of the hub.
PublishNext ==
    \E k \in Publishes :
        \/ \E c \in CallIds, state \in PublishStates, x \in Peers \cup {"none"} :
              notify_call_update(k, c, state, x)
        \/ PublishStep(k)

HubNext == PeerNext \/ (\E p \in Peers : EndpointStep(p)) \/ PublishNext

\* The hub of one instance with dashboard peers that come and go while runs
\* publish.
HubStart == Init /\ max_retries = MaxRetriesBound

HubSpec == HubStart /\ [][HubNext]_vars

\* The hub with every peer attached and subscribed as it chose, while runs
\* publish and clients go away unnoticed by their handlers: the registries
\* change only in the cleanup loops of the broadcasts.
DeliveryInit ==
    /\ ServiceInit /\ instances = {1} /\ call_ids = CallIds /\ sequences = Sequences
    /\ max_retries = MaxRetriesBound
    /\ active_connections = Peers
    /\ call_subscribers \in [CallIds -> SUBSET Peers]
    /\ endpoint = [p \in Peers |-> "receive"]
    /\ alive = [p \in Peers |-> TRUE]
    /\ publishing = [k \in Publishes |-> IdlePublish]
    /\ delivered = [p \in Peers |-> [k \in Publishes |-> 0]]

DeliveryNext == (\E p \in Peers : WsClientClose(p)) \/ PublishNext

DeliverySpec == DeliveryInit /\ [][DeliveryNext]_vars

\* A caller that builds Call objects and asks them for transitions, as the
\* lifecycle test does.
TransitionNext ==
    \E c \in CallIds, s \in CallState :
        \/ CallCreate(c, s)
        \/ CallTransition(c, s)

TransitionSpec == Init /\ [][TransitionNext]_vars

\* The event loop runs every task that can take a step, and every database
\* call and adapter call returns: each started request and each spawned run
\* keeps taking its steps.  Nothing obliges a client to submit a request or a
\* database call to fail.
FairSpec ==
    /\ Spec
    /\ \A r \in Requests : WF_vars(IngestStep(r))
    /\ \A i \in AllInstances, c \in CallIds : WF_vars(RunStep(i, c))

\* The same event loop, with clients that send (and resend) the first two
\* packets of one call.
RedriveInit ==
    InitCommon /\ instances = {1} /\ call_ids = {"c1"} /\ sequences = {0, 1}

RedriveSpec ==
    /\ RedriveInit /\ [][Next]_vars
    /\ \A r \in Requests : WF_vars(IngestStep(r))
    /\ \A i \in AllInstances, c \in CallIds : WF_vars(RunStep(i, c))

\* =================================================================== claims

\* The highest sequence among the persisted packets of call c, or -1.
MaxPacketSequence(c) ==
    LET present == {s \in Sequences : packets[c][s] # <<>>}
    IN IF present = {} THEN -1
       ELSE CHOOSE s \in present : \A u \in present : u <= s

\* C1: in every committed database state, each call's last_sequence is the
\* highest sequence among that call's persisted packets, or -1 when it has none.
C1_LastSequenceIsMax ==
    \A c \in CallIds :
        CallExists(c) => calls[c].last_sequence = MaxPacketSequence(c)

\* C1 witness: a packet with a sequence below last_sequence has just been
\* inserted and committed, and last_sequence still is the maximum.
C1_Witness ==
    \E r \in Requests :
        /\ req[r].pc = "trigger"
        /\ ~req[r].existing
        /\ req[r].sequence < calls[req[r].call_id].last_sequence
        /\ PacketCount(req[r].call_id) >= 2

\* C2: in every committed state at most one packet row exists for any
\* (call_id, sequence).
C2_UniquePackets ==
    \A c \in CallIds, s \in Sequences : Len(packets[c][s]) <= 1

\* C2 witness: a request for a (call_id, sequence) that is already stored has
\* committed, and the pair still has one row.
C2_Witness ==
    \E r \in Requests :
        /\ req[r].pc = "trigger"
        /\ req[r].existing
        /\ Len(packets[req[r].call_id][req[r].sequence]) = 1

\* C3 (as claimed): whenever two submissions of the same (call_id, sequence)
\* have finished, both were answered 'accepted' and exactly one packet row
\* exists for the pair.
C3_DuplicatesAccepted ==
    \A r1, r2 \in Requests :
        ( /\ r1 # r2
          /\ req[r1].pc = "done" /\ req[r2].pc = "done"
          /\ req[r1].call_id = req[r2].call_id
          /\ req[r1].sequence = req[r2].sequence )
        => /\ req[r1].status = "accepted"
           /\ req[r2].status = "accepted"
           /\ Len(packets[req[r1].call_id][req[r1].sequence]) = 1

\* C3 (as claimed): a stored packet row is never overwritten or removed by a
\* later submission.
C3_FirstWriteKept ==
    [][\A c \in CallIds, s \in Sequences :
          packets[c][s] # <<>> => packets'[c][s] = packets[c][s]]_vars

\* C4 (as claimed): once NumRequests requests for one call_id with pairwise
\* distinct sequences have all finished, the call has NumRequests packets and
\* last_sequence is the largest of their sequences.
C4_AllDistinctStored ==
    ( /\ \A r \in Requests : req[r].pc = "done"
      /\ \A r1, r2 \in Requests :
            /\ req[r1].call_id = req[r2].call_id
            /\ r1 # r2 => req[r1].sequence # req[r2].sequence )
    => LET c == req[1].call_id IN
       /\ PacketCount(c) = NumRequests
       /\ \A r \in Requests : calls[c].last_sequence >= req[r].sequence
       /\ \E r \in Requests : calls[c].last_sequence = req[r].sequence

\* C5 (as claimed): no ingest request ends in an error; in particular a request
\* that lost the race to insert the Call row is answered 'accepted' and its
\* packet is stored.
C5_RaceLoserAccepted ==
    \A r \in Requests :
        req[r].pc = "done"
        => /\ req[r].status = "accepted"
           /\ PacketExists(req[r].call_id, req[r].sequence)

\* The transition graph of the claim.
AllowedEdges ==
    {<<IN_PROGRESS, PROCESSING_AI>>, <<IN_PROGRESS, FAILED>>, <<IN_PROGRESS, COMPLETED>>,
     <<PROCESSING_AI, COMPLETED>>, <<PROCESSING_AI, FAILED>>,
     <<FAILED, PROCESSING_AI>>, <<FAILED, ARCHIVED>>,
     <<COMPLETED, ARCHIVED>>}

\* C6: every change of a call's persisted state follows an allowed edge, and a
\* call row that appears starts in IN_PROGRESS.
C6_AllowedTransitions ==
    [][\A c \in CallIds :
          calls'[c].state # calls[c].state
          => IF CallExists(c)
             THEN <<calls[c].state, calls'[c].state>> \in AllowedEdges
             ELSE calls'[c].state = IN_PROGRESS]_vars

\* C6 witness: mark_call_failed has run on a COMPLETED call (after an
\* unexpected error of a later run) and the refused transition left it COMPLETED.
C6_Witness ==
    \E i \in AllInstances, c \in CallIds :
        /\ run[i][c].pc = "notify_failed"
        /\ run[i][c].unexpected
        /\ calls[c].state = COMPLETED

\* C7 (as claimed): a call in PROCESSING_AI eventually is COMPLETED or FAILED.
C7_ProcessingEnds ==
    \A c \in CallIds :
        (calls[c].state = PROCESSING_AI) ~> (calls[c].state \in {COMPLETED, FAILED})

\* C8 (as claimed): a run whose adapter call failed with retries left, and which
\* met no unexpected error, does not end before it has invoked the adapter again.
C8_RetryInvokesAgain ==
    [][\A i \in AllInstances, c \in CallIds :
          ( /\ run[i][c].pc \in {"update_retry", "sleep", "load", "claim",
                                 "notify_processing"}
            /\ run[i][c].retry_count >= 1
            /\ run[i][c].retry_count <= max_retries
            /\ ~run[i][c].unexpected )
          => run'[i][c].pc # "none"]_vars

\* C9 (as claimed): a run that ends after every one of its adapter invocations
\* failed transiently (and no unexpected error) has invoked the adapter
\* max_retries + 1 times, leaves the call FAILED with an AI result of status
\* 'failed' and an error message, and its last publication is the FAILED event.
C9_ExhaustionFails ==
    [][\A i \in AllInstances, c \in CallIds :
          ( /\ run[i][c].pc # "none"
            /\ run'[i][c].pc = "none"
            /\ run[i][c].attempts >= 1
            /\ run[i][c].retry_count = run[i][c].attempts
            /\ ~run[i][c].unexpected )
          => /\ run[i][c].attempts = max_retries + 1
             /\ calls'[c].state = FAILED
             /\ ai_results'[c].status = "failed"
             /\ ai_results'[c].error_message
             /\ events' # <<>>
             /\ events'[Len(events')] = [call_id |-> c, state |-> FAILED, ai_result |-> FALSE]]_vars

\* C10: in every committed state the persisted retry_count of every call is at
\* most max_retries.
C10_RetryCountBounded ==
    \A c \in CallIds : ai_results[c].retry_count <= max_retries

\* C10 witness: update_retry_count has persisted a retry_count equal to a
\* positive max_retries.
C10_Witness ==
    \E i \in AllInstances, c \in CallIds :
        /\ run[i][c].pc = "sleep"
        /\ max_retries >= 1
        /\ ai_results[c].retry_count = max_retries

\* C11: in every committed state, a call whose AI result has status 'completed'
\* is in state COMPLETED or ARCHIVED and has a transcript and a sentiment.
C11_CompletedResultMeansCompleted ==
    \A c \in CallIds :
        ai_results[c].status = "completed"
        => /\ calls[c].state \in {COMPLETED, ARCHIVED}
           /\ ai_results[c].transcript
           /\ ai_results[c].sentiment

\* C11 witness: a re-drive of a call that had FAILED has just committed its
\* result over the 'failed' one, and the call is COMPLETED.
C11_Witness ==
    \E i \in AllInstances, c \in CallIds :
        /\ run[i][c].pc = "notify_completed"
        /\ ai_results[c].status = "completed"
        /\ calls[c].state = COMPLETED
        /\ \E k \in 1..Len(events) : events[k] = [call_id |-> c, state |-> FAILED, ai_result |-> FALSE]

\* C12: within an instance at most one process_call_with_retry task per call_id
\* is alive, it is alive exactly while the call_id is in processing_calls, and
\* a trigger for a call_id in processing_calls changes neither the set nor the
\* tasks.
C12_OneRunPerCall ==
    [][/\ \A i \in AllInstances, c \in CallIds :
             /\ tasks'[i][c] <= 1
             /\ (tasks'[i][c] = 1) = (c \in processing_calls'[i])
       /\ \A r \in Requests :
             ( /\ IngestRespond(r)
               /\ req[r].call_id \in processing_calls[req[r].inst] )
             => UNCHANGED <<processing_calls, run, tasks>>]_vars

\* C12 witness: two requests were answered and the task created by the first
\* trigger has not run yet: the second trigger found the call in flight.
C12_Witness ==
    \E r1, r2 \in Requests, i \in AllInstances, c \in CallIds :
        /\ r1 # r2
        /\ req[r1].pc = "done" /\ req[r1].status = "accepted" /\ req[r1].call_id = c
        /\ req[r2].pc = "done" /\ req[r2].status = "accepted" /\ req[r2].call_id = c
        /\ run[i][c].pc = "start"
        /\ tasks[i][c] = 1
        /\ events = <<>>

\* C13 (as claimed): of the runs that instances start for one call, a run
\* commits the transition to PROCESSING_AI (and goes on to the adapter) only
\* if the persisted state is IN_PROGRESS or FAILED at that commit; a run that
\* comes second finds PROCESSING_AI and exits.
C13_SingleClaimAcrossInstances ==
    [][\A i \in AllInstances, c \in CallIds :
          (run[i][c].pc = "claim" /\ run'[i][c].pc = "notify_processing")
          => calls[c].state \in {IN_PROGRESS, FAILED}]_vars

C15_IngestNotBlockedByRun ==
    \A r \in Requests :
        req[r].pc \in {"select", "insert", "check", "write", "trigger"}
        => \A i \in AllInstances :
              ( /\ run[i][req[r].call_id].pc \in {"adapter", "sleep"}
                /\ row_lock[req[r].call_id] \in {0, r} )
              => ENABLED IngestStep(r)

\* C15 witness: a request for an existing call is about to take the row lock
\* while the run for that call is in its backoff sleep.
C15_Witness ==
    \E r \in Requests, i \in AllInstances :
        /\ req[r].pc = "select"
        /\ CallExists(req[r].call_id)
        /\ row_lock[req[r].call_id] = 0
        /\ run[i][req[r].call_id].pc = "sleep"

\* C16: a task is created only by the trigger of a request whose transaction
\* has committed (its packet is stored, the row is released) and which is
\* answered 'accepted' after that trigger; and the select of a run returns the
\* packet of every request that was answered 'accepted' so far.
C16_CommitTriggerRespond ==
    [][\A i \in AllInstances, c \in CallIds :
          /\ (run[i][c].pc = "none" /\ run'[i][c].pc = "start")
                => \E r \in Requests :
                      /\ IngestRespond(r)
                      /\ req[r].inst = i /\ req[r].call_id = c
                      /\ PacketExists(c, req[r].sequence)
                      /\ row_lock[c] # r
                      /\ req'[r].status = "accepted"
          /\ (run[i][c].pc = "load" /\ run'[i][c].pc = "claim")
                => \A r \in Requests :
                      (req[r].pc = "done" /\ req[r].status = "accepted" /\ req[r].call_id = c)
                      => \E k \in 1..Len(run'[i][c].blob) :
                            run'[i][c].blob[k] = packets[c][req[r].sequence][1]]_vars

\* C16 witness: the run created by the trigger of an accepted request has
\* loaded the call, and the packets of two accepted requests are in its blob.
C16_Witness ==
    \E i \in AllInstances, c \in CallIds, r1, r2 \in Requests :
        /\ r1 # r2
        /\ run[i][c].pc = "claim"
        /\ req[r1].pc = "done" /\ req[r1].status = "accepted" /\ req[r1].call_id = c
        /\ req[r2].pc = "done" /\ req[r2].status = "accepted" /\ req[r2].call_id = c
        /\ \E k1, k2 \in 1..Len(run[i][c].blob) :
              run[i][c].blob[k1] = PayloadData(r1) /\ run[i][c].blob[k2] = PayloadData(r2)

\* C17: last_sequence of a call never decreases; the commit of an ingest
\* never fails, whatever the order of the sequences; and a commit whose
\* sequence is new stores the packet and leaves last_sequence at the larger
\* of its previous value and the new sequence.
C17_OutOfOrderTolerated ==
    [][/\ \A c \in CallIds :
             CallExists(c) => calls'[c].last_sequence >= calls[c].last_sequence
       /\ \A r \in Requests :
             IngestCommit(r)
             => LET c == req[r].call_id
                    s == req[r].sequence
                    before == IF CallExists(c) THEN calls[c].last_sequence ELSE -1
                IN /\ req'[r].status # "error"
                   /\ ~PacketExists(c, s)
                        => /\ packets'[c][s] = <<PayloadData(r)>>
                           /\ calls'[c].last_sequence = Max(before, s)]_vars

\* C17 witness: a packet whose sequence is below the last_sequence read under
\* the lock has been committed; it is stored and last_sequence was not lowered.
C17_Witness ==
    \E r \in Requests :
        /\ req[r].pc = "trigger"
        /\ req[r].sequence < req[r].last_sequence
        /\ packets[req[r].call_id][req[r].sequence] = <<PayloadData(r)>>
        /\ calls[req[r].call_id].last_sequence = req[r].last_sequence

\* C18: the last_sequence an ingest reads when it takes the row lock (or -1
\* for the call it creates) is the highest stored sequence of the call; the
\* response is 'accepted' with a message exactly when the packet's sequence
\* differs from that value plus one; and no request fails once it has read it.
C18_MessageIffMismatch ==
    [][\A r \in Requests :
          /\ (req[r].pc \in {"select", "insert"} /\ req'[r].pc = "check")
                => /\ row_lock'[req[r].call_id] = r
                   /\ req'[r].last_sequence = MaxPacketSequence(req[r].call_id)
          /\ req[r].pc \in {"check", "write"}
                => /\ req'[r].last_sequence = req[r].last_sequence
                   /\ req'[r].status # "error"
          /\ IngestRespond(r)
                => /\ req'[r].status = "accepted"
                   /\ req'[r].message = (req[r].sequence # req[r].last_sequence + 1)]_vars

\* C18 witness: sequences 0, 1, 2 were ingested in order and every response
\* came without a message.
C18_Witness ==
    \A r \in Requests :
        /\ req[r].pc = "done"
        /\ req[r].status = "accepted"
        /\ req[r].sequence = r - 1
        /\ ~req[r].message

\* C19: a request whose body has sequence < 0, empty data or timestamp <= 0
\* is answered with the validation error at once: it takes no lock, leaves
\* every Call, Packet and AIResult row as it is and triggers no processing.
C19_InvalidPayloadRejected ==
    [][\A r \in Requests, i \in AllInstances, c \in CallIds :
          \A s \in PayloadSequences, n \in DataLengths, ts \in Timestamps :
              (IngestSubmit(r, i, c, s, n, ts) /\ (s < 0 \/ n = 0 \/ ts <= 0))
              => /\ req'[r].pc = "done"
                 /\ req'[r].status = "invalid"
                 /\ UNCHANGED <<calls, packets, ai_results, row_lock,
                                processing_calls, run, tasks, events>>]_vars

\* C19 witness: an invalid request for an existing call was rejected after a
\* valid one was accepted, and the call still has that one packet.
C19_Witness ==
    \E r1, r2 \in Requests :
        /\ r1 < r2
        /\ req[r1].pc = "done" /\ req[r1].status = "accepted"
        /\ req[r2].pc = "done" /\ req[r2].status = "invalid"
        /\ req[r2].call_id = req[r1].call_id
        /\ PacketCount(req[r1].call_id) = 1

\* C20: a Call row appears only in the commit of the request that created it,
\* together with that request's packet and last_sequence; a packet appears
\* only together with a last_sequence that covers it; a request that ends in
\* an error changes no row; and no committed Call is without a packet.
C20_IngestAtomic ==
    [][/\ \A c \in CallIds :
             /\ (~CallExists(c) /\ calls'[c] # NoCall)
                   => \E r \in Requests :
                         /\ IngestCommit(r)
                         /\ req[r].call_id = c
                         /\ packets'[c][req[r].sequence] = <<PayloadData(r)>>
                         /\ calls'[c].last_sequence = req[r].sequence
             /\ \A s \in Sequences :
                   packets'[c][s] # packets[c][s]
                   => /\ calls'[c] # NoCall
                      /\ calls'[c].last_sequence >= s
             /\ calls'[c] # NoCall => \E s \in Sequences : packets'[c][s] # <<>>
       /\ \A r \in Requests :
             (req[r].status # "error" /\ req'[r].status = "error")
             => UNCHANGED <<calls, packets, ai_results>>]_vars

\* C20 witness: a request ended in an error, its packet is not stored, and
\* the call holds exactly the packets of the other requests.
C20_Witness ==
    \E r \in Requests :
        /\ req[r].pc = "done"
        /\ req[r].status = "error"
        /\ CallExists(req[r].call_id)
        /\ \A s \in Sequences :
              packets[req[r].call_id][s] # <<>>
              => /\ packets[req[r].call_id][s] # <<PayloadData(r)>>
                 /\ calls[req[r].call_id].last_sequence >= s

\* C21: at most one ingest per call_id is between its locked read of the Call
\* (or its insert of the Call) and its commit, and it is the holder of the
\* row; an ingest is made to wait only by an ingest for the same call_id.
C21_SerialisedPerCall ==
    /\ \A r1, r2 \in Requests :
          ( /\ r1 # r2
            /\ req[r1].pc \in {"check", "write"}
            /\ req[r2].pc \in {"check", "write"} )
          => req[r1].call_id # req[r2].call_id
    /\ \A r \in Requests :
          /\ req[r].pc \in {"check", "write"} => row_lock[req[r].call_id] = r
          /\ req[r].pc \in {"select", "insert", "check", "write", "trigger"}
                => \/ ENABLED IngestStep(r)
                   \/ \E r2 \in Requests \ {r} :
                         /\ req[r2].call_id = req[r].call_id
                         /\ req[r2].pc \in {"check", "write"}

\* C21 witness: two ingests for different calls are inside their transactions
\* at the same time while a third waits for the row of one of them.
C21_Witness ==
    \E r1, r2, r3 \in Requests :
        /\ req[r1].pc = "write" /\ req[r2].pc = "write"
        /\ req[r1].call_id # req[r2].call_id
        /\ req[r3].pc \in {"select", "insert"}
        /\ req[r3].call_id = req[r1].call_id
        /\ ~ENABLED IngestStep(r3)

\* C22: transition_state(new_state) returns true and sets the state to
\* new_state exactly when new_state is an allowed successor of the current
\* state; otherwise it returns false and leaves the state unchanged.  ARCHIVED
\* has no successor, and no state is followed by itself or by IN_PROGRESS.
C22_TransitionByValue ==
    [][\A c \in CallIds, n \in CallState :
          CallTransition(c, n)
          => LET allowed == <<objects[c], n>> \in AllowedEdges
             IN  /\ returned'[c].value = allowed
                 /\ objects'[c] = IF allowed THEN n ELSE objects[c]
                 /\ objects[c] = ARCHIVED => ~returned'[c].value
                 /\ n \in {objects[c], IN_PROGRESS} => ~returned'[c].value]_vars

\* C22 witness: a COMPLETED object was asked to go back to IN_PROGRESS, was
\* refused and is still COMPLETED; another object took an allowed step.
C22_Witness ==
    \E c, d \in CallIds :
        /\ objects[c] = COMPLETED
        /\ returned[c] = [new_state |-> IN_PROGRESS, value |-> FALSE]
        /\ objects[d] = ARCHIVED
        /\ returned[d] = [new_state |-> ARCHIVED, value |-> TRUE]

\* The state named by the last event published for call c ("none": no event).
LastEventState(c) ==
    LET idx == {k \in 1..Len(events) : events[k].call_id = c}
    IN  IF idx = {} THEN "none"
        ELSE events[CHOOSE k \in idx : \A j \in idx : j <= k].state

\* C23 (as claimed): the events of a call follow its committed transitions, one
\* event per transition: an event names the state that is committed when it is
\* published and differs from the call's previous event, and a transition out
\* of PROCESSING_AI, COMPLETED or FAILED is committed only after the event of
\* the transition into that state was published.
C23_EventsFollowCommits ==
    [][\A c \in CallIds :
          /\ ( /\ Len(events') = Len(events) + 1
               /\ events'[Len(events')].call_id = c )
             => /\ events'[Len(events')].state = calls[c].state
                /\ events'[Len(events')].state # LastEventState(c)
          /\ ( /\ calls'[c].state # calls[c].state
               /\ calls[c].state \in {PROCESSING_AI, COMPLETED, FAILED} )
             => LastEventState(c) = calls[c].state]_vars

\* C24 (as claimed): a run that met an unexpected error ends with the call
\* persisted as FAILED, the error message recorded in its AI result, and the
\* FAILED event of the call published.
C24_UnexpectedErrorFails ==
    [][\A i \in AllInstances, c \in CallIds :
          ( /\ run[i][c].unexpected
            /\ run'[i][c].pc = "none" )
          => /\ calls'[c].state = FAILED
             /\ ai_results'[c].status = "failed"
             /\ ai_results'[c].error_message
             /\ Len(events') > 0
             /\ events'[Len(events')] = [call_id |-> c, state |-> FAILED, ai_result |-> FALSE]]_vars

\* A step that ends a delivery pass of publish k without raising.
PassEnds(k) ==
    /\ publishing[k].pc \in {"call", "all"}
    /\ publishing'[k].pc \notin {publishing[k].pc, "raised"}

\* C25 (as claimed): a publish never raises to its caller, and when one of its
\* delivery passes ends, every peer a send of the pass failed for is out of
\* active_connections and of every per-call set, and every other peer the
\* pass started with has received the event.
C25_DeliveryFailureContained ==
    [][\A k \in Publishes :
          /\ publishing'[k].pc # "raised"
          /\ PassEnds(k)
             => /\ \A x \in SendDone(k).disconnected :
                      /\ x \notin active_connections'
                      /\ \A c \in CallIds : x \notin call_subscribers'[c]
                /\ \A x \in publishing[k].snapshot \ SendDone(k).disconnected :
                      delivered'[x][k] >= 1]_vars

\* C26 (as claimed): whatever peers do to the registries while a publish is
\* suspended at a send, the publish does not fail, and each of its passes
\* ends having sent to every peer registered when the pass began.
C26_PublishReadsAtomically ==
    [][\A k \in Publishes :
          /\ publishing[k].pc \in {"call", "all"} => publishing'[k].pc \in {"call", "all", "returned"}
          /\ PassEnds(k) => publishing[k].snapshot \subseteq SendDone(k).visited]_vars

\* C27 (as claimed): when a publish for call c ends, every peer that was
\* attached when it began, is still attached and whose client is up has
\* received the event, and twice if it was and is subscribed to c.
C27_FanOut ==
    [][\A k \in Publishes :
          ( /\ publishing[k].pc \in {"call", "all"}
            /\ publishing'[k].pc \in {"returned", "raised"} )
          => \A x \in publishing[k].attached \cap active_connections' :
                alive'[x]
                => /\ delivered'[x][k] >= 1
                   /\ x \in publishing[k].subscribed
                                \cap call_subscribers'[publishing[k].call_id]
                      => delivered'[x][k] = 2]_vars

\* C28: connect and disconnect are idempotent on the registries, disconnect
\* leaves the peer in neither active_connections nor any per-call set, and no
\* publish starts a send to a peer whose handler has disconnected it (it may
\* still get the message of a send that was under way).
C28_AttachDetachIdempotent ==
    /\ [](\A p \in Peers :
             LET d == disconnect(Registries, p)
                 a == connect(Registries, p)
             IN  /\ disconnect(d, p) = d
                 /\ connect(a, p) = a
                 /\ p \notin d.active
                 /\ \A c \in CallIds : p \notin d.subs[c])
    /\ [][\A p \in Peers :
             /\ ( /\ endpoint[p] \in {"receive", "reply"}
                  /\ endpoint'[p] = "done" )
                => /\ p \notin active_connections'
                   /\ \A c \in CallIds : p \notin call_subscribers'[c]
             /\ endpoint[p] = "done"
                => \A k \in Publishes :
                      /\ publishing'[k] # publishing[k] => publishing'[k].current # p
                      /\ delivered'[p][k] # delivered[p][k] => publishing[k].current = p]_vars

\* C28 witness: a peer that received an event while attached was disconnected
\* by its handler while its client was still up, and a later publish returned
\* having delivered twice to the other, subscribed, peer and not to it.
C28_Witness ==
    \E p, q \in Peers, j, k \in Publishes :
        /\ endpoint[p] = "done" /\ alive[p]
        /\ delivered[p][j] >= 1
        /\ publishing[k].pc = "returned"
        /\ delivered[p][k] = 0
        /\ delivered[q][k] = 2

\* C29: the status query answers 404 when its select finds no Call row;
\* otherwise it answers 200 with the state and last_sequence of the row it
\* selected, packet_count the number of packet rows of the call, and
\* has_ai_result true exactly when the call has an AI result row.
C29_StatusReportsRow ==
    [][LET c == status_query'.call_id
           q == status_query
           q1 == status_query'
       IN  /\ (q.pc = "idle" /\ q1.pc # "idle")
              => IF CallExists(c)
                 THEN /\ q1.pc # "done"
                      /\ q1.state = calls[c].state
                      /\ q1.last_sequence = calls[c].last_sequence
                 ELSE q1.pc = "done" /\ q1.status = 404
           /\ (q.pc = "packets" /\ q1.pc # "packets")
              => /\ q1.packet_count =
                       Cardinality({s \in Sequences : PacketExists(c, s)})
                 /\ q1.state = q.state /\ q1.last_sequence = q.last_sequence
           /\ (q.pc = "ai_result" /\ q1.pc # "ai_result")
              => /\ q1.pc = "done" /\ q1.status = 200
                 /\ q1.has_ai_result = (ai_results[c].status # "none")
                 /\ q1.state = q.state /\ q1.last_sequence = q.last_sequence
                 /\ q1.packet_count = q.packet_count]_vars

\* C29 witness: a 200 answer for a call that holds packet 1 only and has an
\* AI result: last_sequence 1, packet_count 1, has_ai_result true.
C29_Witness ==
    /\ status_query.pc = "done"
    /\ status_query.status = 200
    /\ status_query.last_sequence = 1
    /\ status_query.packet_count = 1
    /\ status_query.has_ai_result
    /\ status_query.state = COMPLETED

\* C30: a run whose select returns no call, or a call that is neither
\* IN_PROGRESS nor FAILED, ends there: the task is over and its in-flight mark
\* gone, and the calls row, the AI result (with its retry_count) and the
\* published events are as before; the adapter is not invoked.
C30_EarlyExitChangesNothing ==
    [][\A i \in AllInstances, c \in CallIds :
          ( /\ run[i][c].pc = "load"
            /\ run'[i][c].pc \notin {"load", "mark_failed"}
            /\ ~CallExists(c) \/ calls[c].state \notin {IN_PROGRESS, FAILED} )
          => /\ run'[i][c] = NoRun
             /\ c \notin processing_calls'[i]
             /\ calls' = calls
             /\ ai_results' = ai_results
             /\ packets' = packets
             /\ events' = events]_vars

\* C30 witness: after one failed adapter call the run reloaded the call, found
\* it in PROCESSING_AI and ended: the call is still PROCESSING_AI with the
\* retry count of the first failure, and PROCESSING_AI is the only event.
C30_Witness ==
    \E c \in CallIds :
        /\ calls[c].state = PROCESSING_AI
        /\ \A i \in AllInstances : run[i][c] = NoRun /\ c \notin processing_calls[i]
        /\ ai_results[c].status = "pending"
        /\ ai_results[c].retry_count = 1
        /\ events = <<[call_id |-> c, state |-> PROCESSING_AI, ai_result |-> FALSE]>>

\* C31: after the adapter succeeded, one commit writes the AI result (status
\* 'completed', transcript, sentiment, no error_message) together with the
\* transition PROCESSING_AI -> COMPLETED and publishes nothing; the COMPLETED
\* event, carrying the AI result, is published only after it.  It does not
\* matter what AI result row existed before.
C31_CompletionCommittedThenPublished ==
    [][\A i \in AllInstances, c \in CallIds :
          /\ ( /\ run[i][c].pc = "store"
               /\ run'[i][c].pc \notin {"store", "mark_failed"} )
             => /\ run'[i][c].pc = "notify_completed"
                /\ calls[c].state = PROCESSING_AI
                /\ calls'[c].state = COMPLETED
                /\ ai_results'[c].status = "completed"
                /\ ai_results'[c].transcript /\ ai_results'[c].sentiment
                /\ ~ai_results'[c].error_message
                /\ events' = events
          /\ ( /\ Len(events') = Len(events) + 1
               /\ events'[Len(events')].call_id = c
               /\ events'[Len(events')].state = COMPLETED )
             => /\ events'[Len(events')].ai_result
                /\ calls[c].state = COMPLETED
                /\ ai_results[c].status = "completed"
                /\ ~ai_results[c].error_message
                /\ calls' = calls /\ ai_results' = ai_results]_vars

\* C31 witness: a call that an earlier run had marked failed (its FAILED event
\* is in the list) was processed again with success: COMPLETED, result
\* 'completed' without error message, and the COMPLETED event published last.
C31_Witness ==
    \E c \in CallIds :
        /\ \E k \in 1..Len(events) : events[k].call_id = c /\ events[k].state = FAILED
        /\ events[Len(events)] = [call_id |-> c, state |-> COMPLETED, ai_result |-> TRUE]
        /\ calls[c].state = COMPLETED
        /\ ai_results[c].status = "completed"
        /\ ~ai_results[c].error_message

\* C32: the blob a run takes from its select holds the data of every packet
\* row of the call committed at that time, once each and in ascending
\* sequence order, and it is still that blob when the adapter is invoked:
\* packets committed in between are not part of it.
C32_BlobIsOrderedSnapshot ==
    [][\A i \in AllInstances, c \in CallIds :
          /\ (run[i][c].pc = "load" /\ run'[i][c].pc = "claim")
             => LET S == {s \in Sequences : PacketExists(c, s)}
                    blob == run'[i][c].blob
                IN  /\ Len(blob) = Cardinality(S)
                    /\ \A s \in S :
                          blob[Cardinality({u \in S : u <= s})] = packets[c][s][1]
          /\ ( /\ run[i][c].pc \in {"claim", "notify_processing"}
               /\ run'[i][c].pc \in {"notify_processing", "adapter"} )
             => run'[i][c].blob = run[i][c].blob]_vars

\* C32 witness: a run is about to invoke the adapter with the data of packets
\* 0 and 1, in that order, although packet 1 was committed before packet 0;
\* packet 2, committed after the run's select, is not in the blob.
C32_Witness ==
    \E i \in AllInstances, c \in CallIds :
        /\ run[i][c].pc = "adapter"
        /\ PacketExists(c, 0) /\ PacketExists(c, 1) /\ PacketExists(c, 2)
        /\ run[i][c].blob = <<packets[c][0][1], packets[c][1][1]>>
        /\ packets[c][1][1] < packets[c][0][1]

\* C33: a step of an ingest request leaves the AI results, the events and the
\* state of every existing call as they were; the commit of a duplicate
\* changes no row; and the state of an existing call changes only in a step
\* of a run for that call.
C33_IngestFrame ==
    [][/\ req' # req
          => /\ ai_results' = ai_results
             /\ events' = events
             /\ \A c \in CallIds : CallExists(c) => calls'[c].state = calls[c].state
             /\ \A r \in Requests :
                   (req[r].pc = "write" /\ req[r].existing /\ req'[r] # req[r])
                   => calls' = calls /\ packets' = packets
       /\ \A c \in CallIds :
             (CallExists(c) /\ calls'[c].state # calls[c].state)
             => \E i \in AllInstances : run'[i][c] # run[i][c]]_vars

\* C33 witness: a duplicate has just been committed for a call that a run has
\* taken out of IN_PROGRESS and that has an AI result.
C33_Witness ==
    \E r \in Requests :
        /\ req[r].pc = "trigger"
        /\ req[r].existing
        /\ calls[req[r].call_id].state \in {PROCESSING_AI, COMPLETED, FAILED}
        /\ ai_results[req[r].call_id] # NoResult

\* C34: a call whose persisted state is COMPLETED stays COMPLETED whatever
\* request or run takes a step, and the adapter is not invoked for it: no run
\* gets past its select while the call is COMPLETED.
C34_CompletedAbsorbing ==
    [][\A c \in CallIds :
          calls[c].state = COMPLETED
          => /\ calls'[c].state = COMPLETED
             /\ \A i \in AllInstances :
                   /\ run[i][c].pc \notin {"claim", "notify_processing", "adapter", "store"}
                   /\ run'[i][c].attempts <= run[i][c].attempts]_vars

\* C34 witness: after the call was COMPLETED a further packet was stored
\* (last_sequence 2, three packets) and the trigger spawned a run, which is
\* about to select the call.
C34_Witness ==
    \E i \in AllInstances, c \in CallIds :
        /\ calls[c].state = COMPLETED
        /\ events[Len(events)].state = COMPLETED
        /\ run[i][c].pc = "load"
        /\ calls[c].last_sequence = 2
        /\ PacketCount(c) = 3

\* C35: no call is ever in state ARCHIVED.
C35_NeverArchived ==
    \A c \in CallIds : calls[c].state # ARCHIVED

\* C35 witness: mark_call_failed has run a second time on a call that was
\* already FAILED (the state from which the table allows ARCHIVED), every
\* request is answered, and the call is still FAILED.
C35_Witness ==
    \E i \in AllInstances, c \in CallIds :
        /\ run[i][c].pc = "notify_failed"
        /\ calls[c].state = FAILED
        /\ \E k \in 1..Len(events) : events[k].call_id = c /\ events[k].state = FAILED
        /\ \A r \in Requests : req[r].pc \in {"idle", "done"}

\* C36: when a request for a FAILED call reaches its trigger and no run of the
\* call is in flight, a run is spawned with retry counter 0; a run that
\* selects a FAILED call goes on to claim it; and a run spawned while the call
\* is FAILED gets to invoke the adapter, the call then PROCESSING_AI and the
\* run's retry counter 0, unless it meets an unexpected error first.
C36_FailedIsRedriven ==
    /\ [][\A r \in Requests :
             LET c == req[r].call_id
                 i == req[r].inst
             IN  ( /\ req[r].pc = "trigger"
                   /\ req'[r].pc # "trigger"
                   /\ calls[c].state = FAILED
                   /\ c \notin processing_calls[i] )
                 => /\ run'[i][c].pc = "start"
                    /\ run'[i][c].retry_count = 0
                    /\ c \in processing_calls'[i]]_vars
    /\ [][\A i \in AllInstances, c \in CallIds :
             ( /\ run[i][c].pc = "load"
               /\ calls[c].state = FAILED
               /\ run'[i][c].pc \notin {"load", "mark_failed"} )
             => run'[i][c].pc = "claim"]_vars
    /\ \A i \in AllInstances, c \in CallIds :
          (run[i][c].pc = "start" /\ calls[c].state = FAILED)
          ~> \/ /\ run[i][c].pc = "adapter"
                /\ run[i][c].retry_count = 0
                /\ calls[c].state = PROCESSING_AI
             \/ run[i][c].unexpected

\* C36 witness: a run is about to invoke the adapter with retry counter 0 for
\* a call that was FAILED (its FAILED event is published) and whose AI result
\* holds retry_count 1 from the earlier run.
C36_Witness ==
    \E i \in AllInstances, c \in CallIds :
        /\ run[i][c].pc = "adapter"
        /\ run[i][c].retry_count = 0
        /\ ai_results[c].retry_count = 1
        /\ ai_results[c].status = "failed"
        /\ events[Len(events)].state = PROCESSING_AI
        /\ \E k \in 1..Len(events) : events[k].state = FAILED

\* A run of call c that has itself claimed the call: the call object of its
\* session is PROCESSING_AI.
ClaimedBy(i, c) == run[i][c].state = PROCESSING_AI

\* C37 (as claimed): while a call is PROCESSING_AI and no run that claimed it
\* is active (no run at all, or only runs spawned after it was left behind),
\* no step moves it out of PROCESSING_AI.
C37_AbandonedNeverLeaves ==
    [][\A c \in CallIds :
          ( /\ calls[c].state = PROCESSING_AI
            /\ \A i \in AllInstances : ~ClaimedBy(i, c) )
          => calls'[c].state = PROCESSING_AI]_vars

\* C37 (amended): while a call is PROCESSING_AI and no run that claimed it is
\* active, a step leaves it PROCESSING_AI, or it is mark_call_failed of a later
\* run that met an unexpected error and the call becomes FAILED; and a run
\* whose select finds the call PROCESSING_AI ends without claiming it, or
\* meets an unexpected error.
C37_AbandonedLeavesOnlyByError ==
    /\ [][\A c \in CallIds :
             ( /\ calls[c].state = PROCESSING_AI
               /\ \A i \in AllInstances : ~ClaimedBy(i, c) )
             => \/ calls'[c].state = PROCESSING_AI
                \/ /\ calls'[c].state = FAILED
                   /\ \E i \in AllInstances :
                        /\ run[i][c].pc = "mark_failed"
                        /\ run[i][c].unexpected
                        /\ run'[i][c].pc = "notify_failed"]_vars
    /\ [][\A i \in AllInstances, c \in CallIds :
             ( /\ run[i][c].pc = "load"
               /\ calls[c].state = PROCESSING_AI
               /\ run'[i][c].pc # "load" )
             => \/ run'[i][c].pc = "none"
                \/ run'[i][c].pc = "mark_failed" /\ run'[i][c].unexpected]_vars

\* C37 witness: a run spawned after the call was left in PROCESSING_AI (it has
\* claimed nothing and invoked nothing) is about to select the call, which is
\* still PROCESSING_AI and whose PROCESSING_AI event is the last one published.
C37_Witness ==
    \E i \in AllInstances, c \in CallIds :
        /\ run[i][c].pc = "load"
        /\ ~ClaimedBy(i, c)
        /\ run[i][c].attempts = 0
        /\ calls[c].state = PROCESSING_AI
        /\ Len(events) > 0
        /\ events[Len(events)].state = PROCESSING_AI

\* C38: the adapter is invoked for a call only by a run that has claimed it
\* (its own transition to PROCESSING_AI is committed) and whose PROCESSING_AI
\* event is the last event published; at every invocation, and while one is
\* pending, the persisted state of the call is PROCESSING_AI.
C38_AdapterOnlyAfterClaim ==
    /\ [](\A i \in AllInstances, c \in CallIds :
             run[i][c].pc = "adapter" => calls[c].state = PROCESSING_AI)
    /\ [][\A i \in AllInstances, c \in CallIds :
             (run[i][c].pc = "adapter" /\ run'[i][c].attempts = run[i][c].attempts + 1)
             => /\ calls[c].state = PROCESSING_AI
                /\ ClaimedBy(i, c)
                /\ Len(events) > 0
                /\ events[Len(events)] =
                     [call_id |-> c, state |-> PROCESSING_AI, ai_result |-> FALSE]
                /\ calls'[c].state = PROCESSING_AI]_vars

\* C38 witness: the adapter has been invoked once and returned a result, the
\* call is PROCESSING_AI and the PROCESSING_AI event is the last one published.
C38_Witness ==
    \E i \in AllInstances, c \in CallIds :
        /\ run[i][c].pc = "store"
        /\ run[i][c].attempts = 1
        /\ ClaimedBy(i, c)
        /\ calls[c].state = PROCESSING_AI
        /\ events[Len(events)].state = PROCESSING_AI

\* C39 (as claimed): whenever a call_update event with state S is published
\* for a call, the call exists and S is its persisted state, as left by the
\* commit that precedes the publication; a FAILED event is published only for
\* a call that is FAILED.
C39_EventMatchesPersistedState ==
    [][Len(events') = Len(events) + 1 =>
          LET e == events'[Len(events')]
          IN  /\ CallExists(e.call_id)
              /\ calls[e.call_id].state = e.state
              /\ calls'[e.call_id].state = e.state]_vars

\* C40 (as claimed): in every state of the hub, every websocket in the
\* subscriber set of some call is also in active_connections.
C40_SubscribersAreConnected ==
    \A c \in DOMAIN call_subscribers : call_subscribers[c] \subseteq active_connections

====
